---- MODULE Spec2Model ----
(***************************************************************************)
(* Upload relay endpoints of mba-copilot: the single-shot blob upload      *)
(* (POST /upload), the large-file proxy (POST /upload-large), and the two  *)
(* chunked-upload controllers (POST /upload-chunk, blob-per-chunk and      *)
(* provider-multipart).  One request is handled at a time; every await of  *)
(* an external call (blob store, backend processor) is a position of the   *)
(* request (pc), and the call's outcome is chosen when it settles.         *)
(***************************************************************************)
EXTENDS Integers, Sequences, FiniteSets, TLC

VARIABLES
    rq,       \* rq[r]: the request being handled in slot r (a record, see IdleReq)
    store,    \* blob store: url -> bytes of the objects that exist
    nextUrl   \* next fresh url the store hands out (addRandomSuffix: true)

vars == <<rq, store, nextUrl>>

----------------------------------------------------------------------------
(* Bounds of the model *)

MaxStored == 3       \* objects the store may hold when the request arrives
MaxParts == 2        \* longest manifest a complete request carries
MaxPartNumber == 2   \* largest partNumber of a manifest entry
MaxTicks == 3        \* clock ticks a dispatch is followed for

(* Program constants *)

TIMEOUT_MS == 240000                  \* setTimeout(() => controller.abort(), 240000)
TickMs == TIMEOUT_MS \div 2           \* granularity of the model's clock

----------------------------------------------------------------------------
(* Values *)

NULL == "<null>"                      \* null / undefined / absent form field
Falsy(x) == x \in {NULL, ""}          \* !x for a string-or-null value

Urls == 1..MaxStored                  \* urls a client can name
NoUrl == 0                            \* let blobUrl: string | null = null

(* Bytes of the object at url u, when it exists as the request arrives:   *)
(* every object holds bytes of its own, so an assembly shows its order.   *)
StoredBytes(u) ==
    CASE u = 1 -> <<"A", "A", "A">>
      [] u = 2 -> <<"B", "B">>
      [] OTHER -> <<>>

Files == {[name |-> "a.pdf", bytes |-> <<"A">>], [name |-> "", bytes |-> <<"A">>]}
NoFile == [name |-> NULL, bytes |-> <<>>]        \* formData.get('file') === null
FilenameFields == {NULL, "", "f.pdf"}

Results == {"R1"}                     \* opaque JSON results of the backend
Details == {NULL, "D1"}               \* errorData.detail of a parsed error body

(* Responses.  val is the JSON payload or the error message, as a tuple. *)
NoResp ==
    [status |-> 0, kind |-> "none", val |-> <<>>, success |-> FALSE, url |-> NoUrl, partNumber |-> 0]
JsonResult(v, s) == [NoResp EXCEPT !.status = 200, !.kind = "result", !.val = <<v>>, !.success = s]
JsonError(st, msg) == [NoResp EXCEPT !.status = st, !.kind = "error", !.val = msg]

IdleReq ==
    [handler |-> "none", input |-> <<>>, pc |-> "idle", blobUrl |-> NoUrl,
     filename |-> NULL, result |-> NULL, err |-> <<>>, timer |-> FALSE,
     elapsed |-> 0, log |-> <<>>, resp |-> NoResp,
     partNumber |-> 0, parts |-> <<>>, combined |-> <<>>]

(* Entries of a request's call log: an external call being issued, and   *)
(* the call settling (ok or not).                                        *)
Issue(op, target) == [op |-> op, target |-> target, ph |-> "issue"]
Settle(op, target, ok) == [op |-> op, target |-> target, ph |-> IF ok THEN "ok" ELSE "fail"]

Set(r, q) == rq' = [rq EXCEPT ![r] = q]
Return(q, resp) == [q EXCEPT !.pc = "done", !.resp = resp, !.timer = FALSE]

(* Outcomes of the store *)

(* A put that takes the url of the write before it again instead of a     *)
(* url of its own (no random suffix on the path).                         *)
putOk_sameUrl(bytes) ==
    /\ store' = [u \in DOMAIN store \cup {nextUrl} |->
                    IF u = nextUrl THEN bytes ELSE store[u]]
    /\ UNCHANGED nextUrl

putOk(bytes) ==
    /\ store' = [u \in DOMAIN store \cup {nextUrl} |->
                    IF u = nextUrl THEN bytes ELSE store[u]]
    /\ nextUrl' = nextUrl + 1
delOk(urls) ==
    /\ store' = [u \in DOMAIN store \ urls |-> store[u]]
    /\ UNCHANGED nextUrl
StoreUnchanged == UNCHANGED <<store, nextUrl>>

----------------------------------------------------------------------------
(* src/app/api/upload-large/route.ts, processFromUrl: call the backend,   *)
(* then clean up the blob.                                                *)

(* A dispatch that issues the delete together with the backend call.      *)
processFromUrl_deleteEarly(q, blobUrl, filename) ==
    [q EXCEPT !.pc = "pfu_fetch", !.blobUrl = blobUrl, !.filename = filename,
              !.timer = TRUE, !.elapsed = 0,
              !.log = @ \o <<Issue("backend", <<blobUrl>>), Issue("del", <<blobUrl>>)>>]

(* try { ... fetch(`${backendUrl}/backend/upload-from-url`, ...) with the  *)
(* abort timer armed right before it.                                     *)
processFromUrl(q, blobUrl, filename) ==
    [q EXCEPT !.pc = "pfu_fetch", !.blobUrl = blobUrl, !.filename = filename,
              !.timer = TRUE, !.elapsed = 0,
              !.log = Append(@, Issue("backend", <<blobUrl>>))]

(* catch (processError) { try { await del(blobUrl) } ...: the delete is    *)
(* issued, the error is kept to be rethrown.                              *)
pfu_catch(q, e) ==
    [q EXCEPT !.pc = "pfu_catch_del", !.err = e, !.timer = FALSE,
              !.log = Append(@, Issue("del", <<q.blobUrl>>))]

(* const result = await response.json(); then try { await del(blobUrl) }   *)
pfu_cleanup(q, result) ==
    [q EXCEPT !.pc = "pfu_del", !.result = result,
              !.log = Append(@, Issue("del", <<q.blobUrl>>))]

(* The outer catch of POST: { error: message }, status 500.               *)
uploadLarge_catch(q, e) == Return(q, JsonError(500, e))

(* fetch resolves with a response; .finally(() => clearTimeout(timeoutId)) *)
pfu_fetch_response(r) ==
    /\ rq[r].pc = "pfu_fetch"
    /\ \E ok \in BOOLEAN :
         Set(r, [rq[r] EXCEPT !.pc = IF ok THEN "pfu_json" ELSE "pfu_text",
                              !.timer = FALSE,
                              !.log = Append(@, Settle("backend", <<rq[r].blobUrl>>, ok))])
    /\ StoreUnchanged

(* fetch rejects (network error) *)
pfu_fetch_reject(r) ==
    /\ rq[r].pc = "pfu_fetch"
    /\ Set(r, pfu_catch([rq[r] EXCEPT !.log = Append(@, Settle("backend", <<rq[r].blobUrl>>, FALSE))],
                        <<"fetch failed">>))
    /\ StoreUnchanged

(* the timer fires: controller.abort() rejects the pending fetch *)
pfu_abort(r) ==
    /\ rq[r].pc = "pfu_fetch"
    /\ rq[r].timer
    /\ rq[r].elapsed >= TIMEOUT_MS
    /\ Set(r, pfu_catch([rq[r] EXCEPT !.log = Append(@, Settle("backend", <<rq[r].blobUrl>>, FALSE))],
                        <<"This operation was aborted">>))
    /\ StoreUnchanged

(* if (!response.ok) { const errorText = await response.text(); throw ... } *)
pfu_text(r) ==
    /\ rq[r].pc = "pfu_text"
    /\ \/ \E d \in Details :
            Set(r, pfu_catch(rq[r], <<"Backend processing failed", "500", d>>))
       \/ Set(r, pfu_catch(rq[r], <<"body read failed">>))
    /\ StoreUnchanged

(* const result = await response.json() *)
pfu_json(r) ==
    /\ rq[r].pc = "pfu_json"
    /\ \/ \E res \in Results : Set(r, pfu_cleanup(rq[r], res))
       \/ Set(r, pfu_catch(rq[r], <<"Unexpected token">>))
    /\ StoreUnchanged

(* try { await del(blobUrl) } catch { console.warn } ; return result *)
pfu_del(r) ==
    /\ rq[r].pc = "pfu_del"
    /\ \E ok \in BOOLEAN :
         /\ Set(r, Return([rq[r] EXCEPT !.log = Append(@, Settle("del", <<rq[r].blobUrl>>, ok))],
                          JsonResult(rq[r].result, FALSE)))
         /\ IF ok THEN delOk({rq[r].blobUrl}) ELSE StoreUnchanged

(* try { await del(blobUrl) } catch { } ; throw processError *)
pfu_catch_del(r) ==
    /\ rq[r].pc = "pfu_catch_del"
    /\ \E ok \in BOOLEAN :
         /\ Set(r, uploadLarge_catch([rq[r] EXCEPT !.log = Append(@, Settle("del", <<rq[r].blobUrl>>, ok))],
                                     rq[r].err))
         /\ IF ok THEN delOk({rq[r].blobUrl}) ELSE StoreUnchanged

----------------------------------------------------------------------------
(* src/app/api/upload-large/route.ts, POST                                *)

UploadLargeInputs ==
    {[contentType |-> "json", body |-> "object", url |-> u, filename |-> f, file |-> NoFile] :
        u \in {NoUrl} \cup Urls, f \in FilenameFields}
    \cup {[contentType |-> "json", body |-> b, url |-> NoUrl, filename |-> NULL, file |-> NoFile] :
        b \in {"invalid", "null"}}
    \cup {[contentType |-> "form", body |-> "object", url |-> NoUrl, filename |-> f, file |-> fl] :
        f \in FilenameFields, fl \in Files \cup {NoFile}}
    \cup {[contentType |-> "form", body |-> "invalid", url |-> NoUrl, filename |-> NULL, file |-> NoFile]}

(* const filename = (formData.get('filename') as string) || file?.name     *)
uploadLarge_filename(inp) == IF Falsy(inp.filename) THEN inp.file.name ELSE inp.filename

(* The handler up to its first await of an external call.                 *)
uploadLarge_POST(q, inp) ==
    IF inp.contentType = "json"
    THEN CASE inp.body = "invalid" -> uploadLarge_catch(q, <<"Unexpected token">>)
           [] inp.body = "null" -> uploadLarge_catch(q, <<"TypeError">>)
           [] OTHER ->
                IF inp.url = NoUrl \/ Falsy(inp.filename)
                THEN Return(q, JsonError(400, <<"Missing url or filename">>))
                ELSE processFromUrl(q, inp.url, inp.filename)
    ELSE CASE inp.body = "invalid" -> uploadLarge_catch(q, <<"Failed to parse body as FormData">>)
           [] inp.file = NoFile -> Return(q, JsonError(400, <<"No file provided">>))
           [] Falsy(uploadLarge_filename(inp)) ->
                Return(q, JsonError(400, <<"No filename provided">>))
           [] OTHER ->
                [q EXCEPT !.pc = "ul_put", !.filename = uploadLarge_filename(inp),
                          !.log = Append(@, Issue("put", <<uploadLarge_filename(inp)>>))]

POST_uploadLarge(r) ==
    /\ rq[r].pc = "idle"
    /\ \E inp \in UploadLargeInputs :
         LET q == uploadLarge_POST([rq[r] EXCEPT !.handler = "uploadLarge", !.input = inp], inp)
         IN  Set(r, q)
    /\ StoreUnchanged

(* src/unnamed/part_002 lines 1-142, POST: the form-data proxy, with the  *)
(* steps of processFromUrl written in line (lines 67-111).  It reads      *)
(* every body as form data.                                               *)
UploadProxyInputs == {inp \in UploadLargeInputs : inp.contentType = "form"}

(* The handler up to await put(filename, file, ...) *)
uploadProxy_POST(q, inp) ==
    CASE inp.body = "invalid" -> uploadLarge_catch(q, <<"Failed to parse body as FormData">>)
      [] inp.file = NoFile -> Return(q, JsonError(400, <<"No file provided">>))
      [] Falsy(uploadLarge_filename(inp)) ->
           Return(q, JsonError(400, <<"No filename provided">>))
      [] OTHER ->
           [q EXCEPT !.pc = "ul_put", !.filename = uploadLarge_filename(inp),
                     !.log = Append(@, Issue("put", <<uploadLarge_filename(inp)>>))]

POST_uploadProxy(r) ==
    /\ rq[r].pc = "idle"
    /\ \E inp \in UploadProxyInputs :
         Set(r, uploadProxy_POST([rq[r] EXCEPT !.handler = "uploadProxy", !.input = inp], inp))
    /\ StoreUnchanged

(* Fallback: forward the file directly to the backend, abort timer armed. *)
ul_fallback(q) ==
    [q EXCEPT !.pc = "ul_direct", !.timer = TRUE, !.elapsed = 0,
              !.log = Append(@, Issue("backendUpload", <<>>))]

(* A put awaited outside a try of its own: its failure ends the request. *)
ul_put_noFallback(r) ==
    /\ rq[r].pc = "ul_put"
    /\ \/ /\ Set(r, processFromUrl(
                    [rq[r] EXCEPT !.log = Append(@, Settle("put", <<rq[r].filename>>, TRUE))],
                    nextUrl, rq[r].filename))
          /\ putOk(rq[r].input.file.bytes)
       \/ /\ Set(r, uploadLarge_catch(
                    [rq[r] EXCEPT !.log = Append(@, Settle("put", <<rq[r].filename>>, FALSE))],
                    <<"put failed">>))
          /\ StoreUnchanged

(* const blob = await put(filename, file, ...) inside try/catch           *)
ul_put(r) ==
    /\ rq[r].pc = "ul_put"
    /\ \/ /\ Set(r, processFromUrl(
                    [rq[r] EXCEPT !.log = Append(@, Settle("put", <<rq[r].filename>>, TRUE))],
                    nextUrl, rq[r].filename))
          /\ putOk(rq[r].input.file.bytes)
       \/ /\ Set(r, ul_fallback(
                    [rq[r] EXCEPT !.log = Append(@, Settle("put", <<rq[r].filename>>, FALSE))]))
          /\ StoreUnchanged

ul_direct_response(r) ==
    /\ rq[r].pc = "ul_direct"
    /\ \E ok \in BOOLEAN :
         Set(r, [rq[r] EXCEPT !.pc = IF ok THEN "ul_direct_json" ELSE "ul_direct_errjson",
                              !.timer = FALSE,
                              !.log = Append(@, Settle("backendUpload", <<>>, ok))])
    /\ StoreUnchanged

ul_direct_reject(r) ==
    /\ rq[r].pc = "ul_direct"
    /\ Set(r, uploadLarge_catch(
                 [rq[r] EXCEPT !.log = Append(@, Settle("backendUpload", <<>>, FALSE))],
                 <<"fetch failed">>))
    /\ StoreUnchanged

ul_direct_abort(r) ==
    /\ rq[r].pc = "ul_direct"
    /\ rq[r].timer
    /\ rq[r].elapsed >= TIMEOUT_MS
    /\ Set(r, uploadLarge_catch(
                 [rq[r] EXCEPT !.log = Append(@, Settle("backendUpload", <<>>, FALSE))],
                 <<"This operation was aborted">>))
    /\ StoreUnchanged

(* const errorData = await response.json().catch(() => ({}));             *)
(* throw new Error(errorData.detail || `Upload failed: ${status}`)         *)
ul_direct_errjson(r) ==
    /\ rq[r].pc = "ul_direct_errjson"
    /\ \E d \in Details :
         Set(r, uploadLarge_catch(rq[r], IF d = NULL THEN <<"Upload failed", "500">> ELSE <<d>>))
    /\ StoreUnchanged

ul_direct_json(r) ==
    /\ rq[r].pc = "ul_direct_json"
    /\ \/ \E res \in Results : Set(r, Return(rq[r], JsonResult(res, FALSE)))
       \/ Set(r, uploadLarge_catch(rq[r], <<"Unexpected token">>))
    /\ StoreUnchanged

----------------------------------------------------------------------------
(* src/unnamed/part_000, POST: single-shot upload through the blob store  *)

UploadInputs ==
    {[body |-> "object", filename |-> f, file |-> fl] :
        f \in FilenameFields, fl \in Files \cup {NoFile}}
    \cup {[body |-> "invalid", filename |-> NULL, file |-> NoFile]}

(* A catch block that reports the error without the cleanup. *)
up_catch_noCleanup(q, e) == Return(q, JsonError(500, e))

(* catch (error): if (blobUrl) { try { await del(blobUrl) } ... } then 500 *)
up_catch(q, e) ==
    IF q.blobUrl # NoUrl
    THEN [q EXCEPT !.pc = "up_catch_del", !.err = e,
                   !.log = Append(@, Issue("del", <<q.blobUrl>>))]
    ELSE Return(q, JsonError(500, e))

(* The handler up to its first await of an external call.                 *)
(* const filename = (formData.get('filename') as string) || file.name     *)
(* reads file.name before the !file check.                                *)
upload_POST(q, inp) ==
    CASE inp.body = "invalid" -> up_catch(q, <<"Failed to parse body as FormData">>)
      [] Falsy(inp.filename) /\ inp.file = NoFile -> up_catch(q, <<"TypeError">>)
      [] inp.file = NoFile -> Return(q, JsonError(400, <<"No file provided">>))
      [] OTHER ->
           LET filename == IF Falsy(inp.filename) THEN inp.file.name ELSE inp.filename
           IN  [q EXCEPT !.pc = "up_put", !.filename = filename,
                         !.log = Append(@, Issue("put", <<filename>>))]

POST_upload(r) ==
    /\ rq[r].pc = "idle"
    /\ \E inp \in UploadInputs :
         LET q == upload_POST([rq[r] EXCEPT !.handler = "upload", !.input = inp], inp)
         IN  Set(r, q)
    /\ StoreUnchanged

(* const blob = await put(...); blobUrl = blob.url; then the backend fetch *)
(* is issued, with no abort signal.                                       *)
up_put(r) ==
    /\ rq[r].pc = "up_put"
    /\ \/ /\ Set(r, [rq[r] EXCEPT !.pc = "up_fetch", !.blobUrl = nextUrl, !.elapsed = 0,
                                  !.log = @ \o <<Settle("put", <<rq[r].filename>>, TRUE),
                                                 Issue("backend", <<nextUrl>>)>>])
          /\ putOk(rq[r].input.file.bytes)
       \/ /\ Set(r, up_catch(
                    [rq[r] EXCEPT !.log = Append(@, Settle("put", <<rq[r].filename>>, FALSE))],
                    <<"put failed">>))
          /\ StoreUnchanged

up_fetch_response(r) ==
    /\ rq[r].pc = "up_fetch"
    /\ \E ok \in BOOLEAN :
         Set(r, [rq[r] EXCEPT !.pc = IF ok THEN "up_json" ELSE "up_errjson",
                              !.log = Append(@, Settle("backend", <<rq[r].blobUrl>>, ok))])
    /\ StoreUnchanged

up_fetch_reject(r) ==
    /\ rq[r].pc = "up_fetch"
    /\ Set(r, up_catch([rq[r] EXCEPT !.log = Append(@, Settle("backend", <<rq[r].blobUrl>>, FALSE))],
                       <<"fetch failed">>))
    /\ StoreUnchanged

(* const error = await response.json().catch(() => ({ detail: 'Unknown error' })); *)
(* throw new Error(error.detail || 'Backend processing failed')            *)
up_errjson(r) ==
    /\ rq[r].pc = "up_errjson"
    /\ \/ \E d \in Details :
            Set(r, up_catch(rq[r], IF d = NULL THEN <<"Backend processing failed">> ELSE <<d>>))
       \/ Set(r, up_catch(rq[r], <<"Unknown error">>))
    /\ StoreUnchanged

(* After const result = await response.json(): await del(blobUrl), which  *)
(* stands directly in the outer try.                                      *)
up_cleanup(q, result) ==
    [q EXCEPT !.pc = "up_del", !.result = result,
              !.log = Append(@, Issue("del", <<q.blobUrl>>))]

up_json(r) ==
    /\ rq[r].pc = "up_json"
    /\ \/ \E res \in Results : Set(r, up_cleanup(rq[r], res))
       \/ Set(r, up_catch(rq[r], <<"Unexpected token">>))
    /\ StoreUnchanged

(* await del(blobUrl); return { success: true, ...result }                 *)
up_del(r) ==
    /\ rq[r].pc = "up_del"
    /\ \/ /\ Set(r, Return([rq[r] EXCEPT !.log = Append(@, Settle("del", <<rq[r].blobUrl>>, TRUE))],
                             JsonResult(rq[r].result, TRUE)))
          /\ delOk({rq[r].blobUrl})
       \/ /\ Set(r, up_catch([rq[r] EXCEPT !.log = Append(@, Settle("del", <<rq[r].blobUrl>>, FALSE))],
                              <<"del failed">>))
          /\ StoreUnchanged

(* try { await del(blobUrl) } catch (delError) { console.error } ; 500     *)
up_catch_del(r) ==
    /\ rq[r].pc = "up_catch_del"
    /\ \E ok \in BOOLEAN :
         /\ Set(r, Return([rq[r] EXCEPT !.log = Append(@, Settle("del", <<rq[r].blobUrl>>, ok))],
                          JsonError(500, rq[r].err)))
         /\ IF ok THEN delOk({rq[r].blobUrl}) ELSE StoreUnchanged

----------------------------------------------------------------------------
(* JavaScript numbers and strings, as far as the part number needs them.  *)
(* A text is a sequence of characters; a number is NaN or an integer.     *)

NaN == [nan |-> TRUE, val |-> 0]
Num(n) == [nan |-> FALSE, val |-> n]
isNaN(x) == x.nan

DigitChars == <<"0", "1", "2", "3", "4", "5", "6", "7", "8", "9">>
IsDigit(c) == \E d \in 1..10 : DigitChars[d] = c
DigitVal(c) == (CHOOSE d \in 1..10 : DigitChars[d] = c) - 1

(* Leading white space is skipped. *)
RECURSIVE TrimStart(_)
TrimStart(s) == IF s # <<>> /\ Head(s) = " " THEN TrimStart(Tail(s)) ELSE s

(* The longest prefix of digits, read in base 10; acc is the value so far *)
(* and seen tells whether a digit was read.                               *)
RECURSIVE ReadDigits(_, _, _)
ReadDigits(s, acc, seen) ==
    IF s # <<>> /\ IsDigit(Head(s))
    THEN ReadDigits(Tail(s), 10 * acc + DigitVal(Head(s)), TRUE)
    ELSE IF seen THEN Num(acc) ELSE NaN

(* parseInt(text, 10): white space, an optional sign, then digits; what   *)
(* follows the digits is ignored; NaN when no digit is read.              *)
parseInt(text) ==
    LET s == TrimStart(text)
        signed == s # <<>> /\ Head(s) \in {"-", "+"}
        n == ReadDigits(IF signed THEN Tail(s) ELSE s, 0, FALSE)
    IN  IF ~isNaN(n) /\ signed /\ Head(s) = "-" THEN Num(0 - n.val) ELSE n

(* String(n) of an integer *)
RECURSIVE NatString(_)
NatString(n) ==
    IF n < 10 THEN <<DigitChars[n + 1]>>
    ELSE NatString(n \div 10) \o <<DigitChars[(n % 10) + 1]>>
String(n) == IF n < 0 THEN <<"-">> \o NatString(0 - n) ELSE NatString(n)

(* s.padStart(5, '0') *)
RECURSIVE padStart(_)
padStart(s) == IF Len(s) >= 5 THEN s ELSE padStart(<<"0">> \o s)

(* formData.get('partNumber') as string, handed to parseInt: an absent    *)
(* field is null, which parseInt reads as the text "null".                *)
AbsentText == <<"n", "u", "l", "l">>
PartNumberTexts ==
    {<<"0">>, <<"1">>, <<"1", "2">>, <<" ", "2">>, <<"-", "1">>, <<"2", "x">>,
     <<"1", ".", "5">>, <<"x">>, <<"x", "1">>, <<"-">>, <<>>, AbsentText}

----------------------------------------------------------------------------
(* src/unnamed/part_002 lines 144-259: chunked upload, one blob per chunk *)
(* (strategy A).                                                          *)

Chunks == {<<"A", "A", "A">>, <<"B", "B">>, <<>>}
NoChunk == [present |-> FALSE, bytes |-> <<>>]       \* formData.get('chunk') === null
ChunkFields == {NoChunk} \cup {[present |-> TRUE, bytes |-> b] : b \in Chunks}

(* A manifest entry { url, partNumber } *)
Part(u, n) == [url |-> u, partNumber |-> n]
PartEntries == {Part(u, Num(n)) : u \in {NoUrl} \cup Urls, n \in 1..MaxPartNumber}

RECURSIVE ListsUpTo(_, _)
ListsUpTo(S, n) ==
    IF n = 0 THEN {<<>>}
    ELSE LET shorter == ListsUpTo(S, n - 1)
         IN  shorter \cup {Append(l, x) : l \in {m \in shorter : Len(m) = n - 1}, x \in S}

(* The parts value of a complete request: absent, a non-list (a number, a *)
(* non-empty string, an object with a length field), or a list; an entry  *)
(* without partNumber is taken in one-entry lists only, where the order   *)
(* of the sort does not depend on how the engine treats NaN.              *)
ManifestInputs ==
    {[kind |-> k, list |-> <<>>] : k \in {"absent", "number", "string", "arraylike"}}
    \cup {[kind |-> "list", list |-> l] : l \in ListsUpTo(PartEntries, MaxParts)}
    \cup {[kind |-> "list", list |-> <<Part(u, NaN)>>] : u \in Urls}

ChunkAInputs ==
    {[action |-> a, body |-> "object", chunk |-> NoChunk, filename |-> NULL,
      partNumber |-> <<>>, parts |-> [kind |-> "absent", list |-> <<>>]] : a \in {"foo", "create", NULL}}
    \cup {[action |-> a, body |-> "invalid", chunk |-> NoChunk, filename |-> NULL,
      partNumber |-> <<>>, parts |-> [kind |-> "absent", list |-> <<>>]] : a \in {"part", "complete"}}
    \cup {[action |-> "complete", body |-> "null", chunk |-> NoChunk, filename |-> NULL,
      partNumber |-> <<>>, parts |-> [kind |-> "absent", list |-> <<>>]]}
    \cup {[action |-> "part", body |-> "object", chunk |-> c, filename |-> f,
      partNumber |-> t, parts |-> [kind |-> "absent", list |-> <<>>]] :
        c \in ChunkFields, f \in FilenameFields, t \in PartNumberTexts}
    \cup {[action |-> "complete", body |-> "object", chunk |-> NoChunk, filename |-> f,
      partNumber |-> <<>>, parts |-> m] : f \in FilenameFields, m \in ManifestInputs}

(* A catch that deletes the parts of the request before it answers. *)
chunkA_catch_cleanup(q, e) ==
    Return([q EXCEPT !.log = Append(@, Issue("del", [i \in 1..Len(q.parts) |-> q.parts[i].url]))],
           JsonError(500, e))

(* catch (error) of POST: { error: message }, status 500 *)
chunkA_catch(q, e) == Return(q, JsonError(500, e))

(* `_chunks/${filename}/part-${String(partNumber).padStart(5, '0')}` *)
chunkKey(filename, partNumber) ==
    <<"_chunks/", filename, "/part-", padStart(String(partNumber))>>

(* if (!chunk || !filename || isNaN(partNumber)) *)
handlePart_invalid(chunk, filename, partNumber) ==
    ~chunk.present \/ Falsy(filename) \/ isNaN(partNumber)

(* handlePart up to await put(...) *)
handlePart(q, inp) ==
    LET partNumber == parseInt(inp.partNumber) IN
    CASE inp.body = "invalid" -> chunkA_catch(q, <<"Failed to parse body as FormData">>)
      [] handlePart_invalid(inp.chunk, inp.filename, partNumber) ->
           Return(q, JsonError(400, <<"Missing chunk, filename, or partNumber">>))
      [] OTHER ->
           [q EXCEPT !.pc = "cA_part_put", !.filename = inp.filename,
                     !.partNumber = partNumber.val,
                     !.log = Append(@, Issue("put", chunkKey(inp.filename, partNumber.val)))]

(* (a, b) => a.partNumber - b.partNumber, as sort reads it: a NaN result  *)
(* counts as 0.                                                           *)
comparePartNumber(a, b) ==
    IF isNaN(a.partNumber) \/ isNaN(b.partNumber) THEN 0
    ELSE a.partNumber.val - b.partNumber.val

(* Array.prototype.sort is stable: x goes after the entries that do not   *)
(* compare greater than it.                                               *)
RECURSIVE InsertPart(_, _)
InsertPart(sorted, x) ==
    IF sorted = <<>> THEN <<x>>
    ELSE IF comparePartNumber(sorted[Len(sorted)], x) > 0
         THEN Append(InsertPart(SubSeq(sorted, 1, Len(sorted) - 1), x), sorted[Len(sorted)])
         ELSE Append(sorted, x)

(* The manifest taken in arrival order, without the sort. *)
sortedParts_arrivalOrder(parts) == parts

(* const sortedParts = [...parts].sort((a, b) => a.partNumber - b.partNumber) *)
RECURSIVE sortedParts(_)
sortedParts(parts) ==
    IF parts = <<>> THEN <<>>
    ELSE InsertPart(sortedParts(SubSeq(parts, 1, Len(parts) - 1)), parts[Len(parts)])

(* partBuffers.reduce((sum, buf) => sum + buf.byteLength, 0) *)
RECURSIVE totalSize(_)
totalSize(partBuffers) ==
    IF partBuffers = <<>> THEN 0
    ELSE Len(Head(partBuffers)) + totalSize(Tail(partBuffers))

(* Every buffer is written at the start of the final buffer. *)
setAt_noOffset(combined, buf, offset) ==
    [i \in 1..Len(combined) |-> IF i <= Len(buf) THEN buf[i] ELSE combined[i]]

(* combined.set(new Uint8Array(buf), offset) *)
setAt(combined, buf, offset) ==
    [i \in 1..Len(combined) |->
        IF offset < i /\ i <= offset + Len(buf) THEN buf[i - offset] ELSE combined[i]]

(* for (const buf of partBuffers) { combined.set(..., offset); offset += buf.byteLength } *)
RECURSIVE combineFrom(_, _, _)
combineFrom(partBuffers, combined, offset) ==
    IF partBuffers = <<>> THEN combined
    ELSE combineFrom(Tail(partBuffers), setAt(combined, Head(partBuffers), offset),
                     offset + Len(Head(partBuffers)))

(* const combined = new Uint8Array(totalSize), zero-filled, then the loop *)
combine(partBuffers) ==
    combineFrom(partBuffers, [i \in 1..totalSize(partBuffers) |-> "\\0"], 0)

partUrls(parts) == [i \in 1..Len(parts) |-> parts[i].url]

(* A complete that looks its parts up among the part requests the server  *)
(* has answered for the same filename, and rejects a manifest that names  *)
(* any other url.                                                         *)
fetchAll_knownPartsOnly(q, parts) ==
    IF \A i \in 1..Len(parts) :
          \E s \in DOMAIN rq : /\ rq[s].resp.kind = "part"
                               /\ rq[s].resp.url = parts[i].url
                               /\ rq[s].filename = q.filename
    THEN [q EXCEPT !.pc = "cA_fetch", !.parts = parts,
                   !.log = @ \o [i \in 1..Len(parts) |-> Issue("fetch", <<parts[i].url>>)]]
    ELSE Return(q, JsonError(400, <<"Unknown part">>))

(* Promise.all(sortedParts.map(async (part) => { const res = await fetch(part.url) ... *)
(* every fetch is called before the first one settles.                    *)
fetchAll(q, parts) ==
    [q EXCEPT !.pc = "cA_fetch", !.parts = parts,
              !.log = @ \o [i \in 1..Len(parts) |-> Issue("fetch", <<parts[i].url>>)]]

(* handleComplete up to await Promise.all(...) *)
handleComplete(q, inp) ==
    CASE inp.body = "invalid" -> chunkA_catch(q, <<"Unexpected token">>)
      [] inp.body = "null" -> chunkA_catch(q, <<"TypeError">>)
      [] Falsy(inp.filename) \/ inp.parts.kind \in {"absent", "number"}
            \/ (inp.parts.kind = "list" /\ Len(inp.parts.list) = 0) ->
           Return(q, JsonError(400, <<"Missing filename or parts">>))
      [] inp.parts.kind = "arraylike" -> chunkA_catch(q, <<"TypeError">>)
      [] inp.parts.kind = "string" ->
           fetchAll([q EXCEPT !.filename = inp.filename], <<Part(NoUrl, NaN)>>)
      [] OTHER ->
           fetchAll([q EXCEPT !.filename = inp.filename], sortedParts(inp.parts.list))

(* A switch whose default branch takes the request for a part upload. *)
chunkA_POST_defaultPart(q, inp) ==
    CASE inp.action = "complete" -> handleComplete(q, inp)
      [] OTHER -> handlePart(q, inp)

(* switch (action) *)
chunkA_POST(q, inp) ==
    CASE inp.action = "part" -> handlePart(q, inp)
      [] inp.action = "complete" -> handleComplete(q, inp)
      [] OTHER -> Return(q, JsonError(400, <<"Unknown action", inp.action>>))

POST_chunkA(r) ==
    /\ rq[r].pc = "idle"
    /\ \E inp \in ChunkAInputs :
         Set(r, chunkA_POST([rq[r] EXCEPT !.handler = "chunkA", !.input = inp], inp))
    /\ StoreUnchanged

(* const blob = await put(`_chunks/...`, chunk, ...); return { url, partNumber } *)
cA_part_put(r) ==
    /\ rq[r].pc = "cA_part_put"
    /\ LET key == chunkKey(rq[r].filename, rq[r].partNumber) IN
       \/ /\ Set(r, Return([rq[r] EXCEPT !.blobUrl = nextUrl,
                                          !.log = Append(@, Settle("put", key, TRUE))],
                            [NoResp EXCEPT !.status = 200, !.kind = "part",
                                           !.url = nextUrl, !.partNumber = rq[r].partNumber]))
          /\ putOk(rq[r].input.chunk.bytes)
       \/ /\ Set(r, chunkA_catch([rq[r] EXCEPT !.log = Append(@, Settle("put", key, FALSE))],
                                  <<"put failed">>))
          /\ StoreUnchanged

(* A part is retrieved when its object exists and the fetch succeeds.     *)
Retrievable(parts) == \A i \in 1..Len(parts) : parts[i].url \in DOMAIN store

(* After Promise.all resolved: concatenate, then put(filename, combined)  *)
assemble(q, partBuffers) ==
    [q EXCEPT !.pc = "cA_put", !.combined = combine(partBuffers),
              !.log = @ \o [i \in 1..Len(q.parts) |-> Settle("fetch", <<q.parts[i].url>>, TRUE)]
                        \o <<Issue("put", <<q.filename>>)>>]

(* Promise.all resolves: every fetch returned ok and its arrayBuffer() *)
cA_fetch_ok(r) ==
    /\ rq[r].pc = "cA_fetch"
    /\ Retrievable(rq[r].parts)
    /\ Set(r, assemble(rq[r], [i \in 1..Len(rq[r].parts) |-> store[rq[r].parts[i].url]]))
    /\ StoreUnchanged

(* A failed part is skipped and the parts that could be retrieved are     *)
(* assembled (Promise.allSettled in place of Promise.all).                *)
retrievalFailed_skipPart(q, i) ==
    assemble([q EXCEPT !.log = Append(@, Settle("fetch", <<q.parts[i].url>>, FALSE))],
             [j \in 1..Len(q.parts) |->
                 IF j # i /\ q.parts[j].url \in DOMAIN store
                 THEN store[q.parts[j].url] ELSE <<>>])

(* Promise.all rejects with the first failure: fetch rejected, or         *)
(* if (!res.ok) throw new Error(`Failed to download part ${part.partNumber}`) *)
retrievalFailed(q, i) ==
    chunkA_catch([q EXCEPT !.log = Append(@, Settle("fetch", <<q.parts[i].url>>, FALSE))],
                 <<"Failed to download part">>)

cA_fetch_fail(r) ==
    /\ rq[r].pc = "cA_fetch"
    /\ \E i \in 1..Len(rq[r].parts) : Set(r, retrievalFailed(rq[r], i))
    /\ StoreUnchanged

(* After the final put: try { await del(sortedParts.map((p) => p.url)) }  *)
cleanupParts(q, finalUrl) ==
    [q EXCEPT !.pc = "cA_del", !.blobUrl = finalUrl,
              !.log = @ \o <<Settle("put", <<q.filename>>, TRUE), Issue("del", partUrls(q.parts))>>]

(* const finalBlob = await put(filename, Buffer.from(combined.buffer), ...) *)
cA_put(r) ==
    /\ rq[r].pc = "cA_put"
    /\ \/ /\ Set(r, cleanupParts(rq[r], nextUrl))
          /\ putOk(rq[r].combined)
       \/ /\ Set(r, chunkA_catch([rq[r] EXCEPT !.log = Append(@, Settle("put", <<rq[r].filename>>, FALSE))],
                                  <<"put failed">>))
          /\ StoreUnchanged

(* The delete of the parts awaited outside a try of its own: its failure  *)
(* reaches the catch of POST.                                             *)
cA_del_rethrow(r) ==
    /\ rq[r].pc = "cA_del"
    /\ \/ /\ Set(r, Return([rq[r] EXCEPT !.log = Append(@, Settle("del", partUrls(rq[r].parts), TRUE))],
                            [NoResp EXCEPT !.status = 200, !.kind = "url", !.url = rq[r].blobUrl]))
          /\ delOk({rq[r].parts[i].url : i \in 1..Len(rq[r].parts)})
       \/ /\ Set(r, chunkA_catch([rq[r] EXCEPT !.log = Append(@, Settle("del", partUrls(rq[r].parts), FALSE))],
                                  <<"del failed">>))
          /\ StoreUnchanged

(* try { await del(...) } catch (cleanupError) { console.warn } ; return { url } *)
cA_del(r) ==
    /\ rq[r].pc = "cA_del"
    /\ \E ok \in BOOLEAN :
         /\ Set(r, Return([rq[r] EXCEPT !.log = Append(@, Settle("del", partUrls(rq[r].parts), ok))],
                          [NoResp EXCEPT !.status = 200, !.kind = "url", !.url = rq[r].blobUrl]))
         /\ IF ok THEN delOk({rq[r].parts[i].url : i \in 1..Len(rq[r].parts)})
                  ELSE StoreUnchanged

----------------------------------------------------------------------------
(* src/app/api/upload-chunk/route.ts: chunked upload through the store's  *)
(* multipart API (strategy B).                                            *)

IdFields == {NULL, "", "id"}                   \* uploadId, key
EtagParts == {[partNumber |-> n, etag |-> "e"] : n \in 1..MaxPartNumber}
EtagManifests ==
    {[kind |-> k, list |-> <<>>] : k \in {"absent", "number", "arraylike"}}
    \cup {[kind |-> "list", list |-> l] : l \in ListsUpTo(EtagParts, MaxParts)}

NoChunkB ==
    [action |-> NULL, body |-> "object", chunk |-> NoChunk, filename |-> NULL, uploadId |-> NULL,
     key |-> NULL, partNumber |-> <<>>, parts |-> [kind |-> "absent", list |-> <<>>]]

ChunkBInputs ==
    {[NoChunkB EXCEPT !.action = a] : a \in {"foo", NULL}}
    \cup {[NoChunkB EXCEPT !.action = a, !.body = "invalid"] : a \in {"create", "part", "complete"}}
    \cup {[NoChunkB EXCEPT !.action = a, !.body = "null"] : a \in {"create", "complete"}}
    \cup {[NoChunkB EXCEPT !.action = "create", !.filename = f] : f \in FilenameFields}
    \cup {[NoChunkB EXCEPT !.action = "part", !.chunk = c, !.uploadId = u, !.key = k,
                           !.partNumber = t] :
            c \in ChunkFields, u \in IdFields, k \in IdFields, t \in PartNumberTexts}
    \cup {[NoChunkB EXCEPT !.action = "complete", !.uploadId = u, !.key = k, !.parts = m] :
            u \in IdFields, k \in IdFields, m \in EtagManifests}

(* catch (error) of POST: { error: message }, status 500 *)
chunkB_catch(q, e) == Return(q, JsonError(500, e))

(* handleCreate up to await createMultipartUpload(filename, ...) *)
handleCreateB(q, inp) ==
    CASE inp.body = "invalid" -> chunkB_catch(q, <<"Unexpected token">>)
      [] inp.body = "null" -> chunkB_catch(q, <<"TypeError">>)
      [] Falsy(inp.filename) -> Return(q, JsonError(400, <<"Missing filename">>))
      [] OTHER ->
           [q EXCEPT !.pc = "cB_create", !.filename = inp.filename,
                     !.log = Append(@, Issue("createMultipartUpload", <<inp.filename>>))]

(* if (!chunk || !uploadId || !key || isNaN(partNumber)) *)
handlePartB_invalid(chunk, uploadId, key, partNumber) ==
    ~chunk.present \/ Falsy(uploadId) \/ Falsy(key) \/ isNaN(partNumber)

(* handlePart up to await uploadPart(key, chunk, { uploadId, key, partNumber }) *)
handlePartB(q, inp) ==
    LET partNumber == parseInt(inp.partNumber) IN
    CASE inp.body = "invalid" -> chunkB_catch(q, <<"Failed to parse body as FormData">>)
      [] handlePartB_invalid(inp.chunk, inp.uploadId, inp.key, partNumber) ->
           Return(q, JsonError(400, <<"Missing chunk, uploadId, key, or partNumber">>))
      [] OTHER ->
           [q EXCEPT !.pc = "cB_part", !.partNumber = partNumber.val,
                     !.log = Append(@, Issue("uploadPart", <<inp.key, inp.uploadId,
                                                             String(partNumber.val)>>))]

(* if (!uploadId || !key || !parts?.length) *)
handleCompleteB_invalid(uploadId, key, parts) ==
    Falsy(uploadId) \/ Falsy(key) \/ parts.kind \in {"absent", "number"}
        \/ (parts.kind = "list" /\ Len(parts.list) = 0)

(* A complete that sorts the parts by partNumber before it hands them to  *)
(* the provider.                                                          *)
handleCompleteB_sorted(q, inp) ==
    LET l == inp.parts.list
        p == CHOOSE p \in Permutations(1..Len(l)) :
                \A i, j \in 1..Len(l) :
                    i < j => \/ l[p[i]].partNumber < l[p[j]].partNumber
                             \/ l[p[i]].partNumber = l[p[j]].partNumber /\ p[i] < p[j]
        sorted == [i \in 1..Len(l) |-> l[p[i]]]
    IN
    CASE inp.body = "invalid" -> chunkB_catch(q, <<"Unexpected token">>)
      [] inp.body = "null" -> chunkB_catch(q, <<"TypeError">>)
      [] handleCompleteB_invalid(inp.uploadId, inp.key, inp.parts) ->
           Return(q, JsonError(400, <<"Missing uploadId, key, or parts">>))
      [] OTHER ->
           [q EXCEPT !.pc = "cB_complete", !.parts = sorted,
                     !.log = Append(@, Issue("completeMultipartUpload", sorted))]

(* handleComplete up to await completeMultipartUpload(key, parts, ...) *)
handleCompleteB(q, inp) ==
    CASE inp.body = "invalid" -> chunkB_catch(q, <<"Unexpected token">>)
      [] inp.body = "null" -> chunkB_catch(q, <<"TypeError">>)
      [] handleCompleteB_invalid(inp.uploadId, inp.key, inp.parts) ->
           Return(q, JsonError(400, <<"Missing uploadId, key, or parts">>))
      [] OTHER ->
           [q EXCEPT !.pc = "cB_complete", !.parts = inp.parts.list,
                     !.log = Append(@, Issue("completeMultipartUpload", inp.parts.list))]

(* switch (action) *)
chunkB_POST(q, inp) ==
    CASE inp.action = "create" -> handleCreateB(q, inp)
      [] inp.action = "part" -> handlePartB(q, inp)
      [] inp.action = "complete" -> handleCompleteB(q, inp)
      [] OTHER -> Return(q, JsonError(400, <<"Unknown action", inp.action>>))

POST_chunkB(r) ==
    /\ rq[r].pc = "idle"
    /\ \E inp \in ChunkBInputs :
         Set(r, chunkB_POST([rq[r] EXCEPT !.handler = "chunkB", !.input = inp], inp))
    /\ StoreUnchanged

(* const multipart = await createMultipartUpload(...); return { uploadId, key } *)
cB_create(r) ==
    /\ rq[r].pc = "cB_create"
    /\ \/ Set(r, Return([rq[r] EXCEPT !.log = Append(@, Settle("createMultipartUpload", <<rq[r].filename>>, TRUE))],
                         [NoResp EXCEPT !.status = 200, !.kind = "multipart", !.val = <<"id", "id">>]))
       \/ Set(r, chunkB_catch([rq[r] EXCEPT !.log = Append(@, Settle("createMultipartUpload", <<rq[r].filename>>, FALSE))],
                              <<"createMultipartUpload failed">>))
    /\ StoreUnchanged

(* const part = await uploadPart(...); return { etag, partNumber } *)
cB_part(r) ==
    /\ rq[r].pc = "cB_part"
    /\ LET t == rq[r].log[Len(rq[r].log)].target IN
       \/ Set(r, Return([rq[r] EXCEPT !.log = Append(@, Settle("uploadPart", t, TRUE))],
                         [NoResp EXCEPT !.status = 200, !.kind = "etag", !.val = <<"e">>,
                                        !.partNumber = rq[r].partNumber]))
       \/ Set(r, chunkB_catch([rq[r] EXCEPT !.log = Append(@, Settle("uploadPart", t, FALSE))],
                              <<"uploadPart failed">>))
    /\ StoreUnchanged

(* const blob = await completeMultipartUpload(...); return { url: blob.url } *)
(* The provider makes the final object out of the parts it holds.         *)
cB_complete(r) ==
    /\ rq[r].pc = "cB_complete"
    /\ \/ /\ Set(r, Return([rq[r] EXCEPT !.blobUrl = nextUrl,
                                          !.log = Append(@, Settle("completeMultipartUpload", rq[r].parts, TRUE))],
                            [NoResp EXCEPT !.status = 200, !.kind = "url", !.url = nextUrl]))
          /\ putOk(<<"M">>)
       \/ /\ Set(r, chunkB_catch([rq[r] EXCEPT !.log = Append(@, Settle("completeMultipartUpload", rq[r].parts, FALSE))],
                                  <<"completeMultipartUpload failed">>))
          /\ StoreUnchanged

----------------------------------------------------------------------------
(* src/unnamed/part_001: the handler that issues client upload tokens     *)
(* through handleUpload of @vercel/blob/client.                           *)

(* The body of the request: not JSON, or a handleUpload event; a token    *)
(* request carries a clientPayload (absent, JSON text, other text).       *)
ClientTokenInputs ==
    {[body |-> "invalid", type |-> NULL, clientPayload |-> NULL]}
    \cup {[body |-> "object", type |-> "blob.generate-client-token", clientPayload |-> p] :
            p \in {NULL, "{}", "x"}}
    \cup {[body |-> "object", type |-> "blob.upload-completed", clientPayload |-> NULL]}

(* An exception that leaves POST: the handler produces no response.       *)
Uncaught(e) == [NoResp EXCEPT !.kind = "uncaught", !.val = e]

(* catch (error): { error: message }, status 500 *)
clientToken_catch(q, e) == Return(q, JsonError(500, e))

(* const body = (await request.json()) as HandleUploadBody, before the    *)
(* try; then handleUpload({ body, request, ... }) inside it.              *)
clientToken_POST(q, inp) ==
    IF inp.body = "invalid" THEN Return(q, Uncaught(<<"Unexpected token">>))
    ELSE [q EXCEPT !.pc = "ct_handleUpload",
                   !.log = Append(@, Issue("handleUpload", <<inp.type>>))]

POST_clientToken(r) ==
    /\ rq[r].pc = "idle"
    /\ \E inp \in ClientTokenInputs :
         Set(r, clientToken_POST([rq[r] EXCEPT !.handler = "clientToken", !.input = inp], inp))
    /\ StoreUnchanged

(* onBeforeGenerateToken: clientPayload ? JSON.parse(clientPayload) : {}  *)
payloadParses(clientPayload) == clientPayload \in {NULL, "{}"}

(* const jsonResponse = await handleUpload(...); return NextResponse.json(jsonResponse) *)
ct_handleUpload(r) ==
    /\ rq[r].pc = "ct_handleUpload"
    /\ LET t == <<rq[r].input.type>> IN
       \/ /\ payloadParses(rq[r].input.clientPayload)
          /\ Set(r, Return([rq[r] EXCEPT !.log = Append(@, Settle("handleUpload", t, TRUE))],
                            JsonResult(rq[r].input.type, TRUE)))
       \/ Set(r, clientToken_catch([rq[r] EXCEPT !.log = Append(@, Settle("handleUpload", t, FALSE))],
                                   <<"handleUpload failed">>))
    /\ StoreUnchanged

----------------------------------------------------------------------------
(* Time.  elapsed[r] is the time since the backend call of request r was  *)
(* issued; it runs while the call or the delivery of its body is pending. *)
(* An armed abort timer fires before time passes its deadline.            *)

AwaitingBackend(q) ==
    q.pc \in {"pfu_fetch", "pfu_text", "pfu_json", "ul_direct", "ul_direct_errjson",
              "ul_direct_json", "up_fetch", "up_errjson", "up_json"}

Tick ==
    /\ \E r \in DOMAIN rq : AwaitingBackend(rq[r])
    /\ \A r \in DOMAIN rq :
         /\ AwaitingBackend(rq[r]) => rq[r].elapsed < MaxTicks * TickMs
         /\ ~(rq[r].timer /\ rq[r].elapsed >= TIMEOUT_MS)
    /\ rq' = [r \in DOMAIN rq |->
                IF AwaitingBackend(rq[r])
                THEN [rq[r] EXCEPT !.elapsed = @ + TickMs] ELSE rq[r]]
    /\ StoreUnchanged

----------------------------------------------------------------------------
Init ==
    /\ rq = [r \in {1} |-> IdleReq]
    /\ \E S \in SUBSET (1..MaxStored) : store = [u \in S |-> StoredBytes(u)]
    /\ nextUrl = MaxStored + 1

Next ==
    \/ Tick
    \/ \E r \in DOMAIN rq : POST_uploadLarge(r)
    \/ \E r \in DOMAIN rq : POST_uploadProxy(r)
    \/ \E r \in DOMAIN rq : ul_put(r)
    \/ \E r \in DOMAIN rq : pfu_fetch_response(r)
    \/ \E r \in DOMAIN rq : pfu_fetch_reject(r)
    \/ \E r \in DOMAIN rq : pfu_abort(r)
    \/ \E r \in DOMAIN rq : pfu_text(r)
    \/ \E r \in DOMAIN rq : pfu_json(r)
    \/ \E r \in DOMAIN rq : pfu_del(r)
    \/ \E r \in DOMAIN rq : pfu_catch_del(r)
    \/ \E r \in DOMAIN rq : ul_direct_response(r)
    \/ \E r \in DOMAIN rq : ul_direct_reject(r)
    \/ \E r \in DOMAIN rq : ul_direct_abort(r)
    \/ \E r \in DOMAIN rq : ul_direct_errjson(r)
    \/ \E r \in DOMAIN rq : ul_direct_json(r)
    \/ \E r \in DOMAIN rq : POST_upload(r)
    \/ \E r \in DOMAIN rq : up_put(r)
    \/ \E r \in DOMAIN rq : up_fetch_response(r)
    \/ \E r \in DOMAIN rq : up_fetch_reject(r)
    \/ \E r \in DOMAIN rq : up_errjson(r)
    \/ \E r \in DOMAIN rq : up_json(r)
    \/ \E r \in DOMAIN rq : up_del(r)
    \/ \E r \in DOMAIN rq : up_catch_del(r)
    \/ \E r \in DOMAIN rq : POST_chunkA(r)
    \/ \E r \in DOMAIN rq : cA_part_put(r)
    \/ \E r \in DOMAIN rq : cA_fetch_ok(r)
    \/ \E r \in DOMAIN rq : cA_fetch_fail(r)
    \/ \E r \in DOMAIN rq : cA_put(r)
    \/ \E r \in DOMAIN rq : cA_del(r)
    \/ \E r \in DOMAIN rq : POST_chunkB(r)
    \/ \E r \in DOMAIN rq : cB_create(r)
    \/ \E r \in DOMAIN rq : cB_part(r)
    \/ \E r \in DOMAIN rq : cB_complete(r)
    \/ \E r \in DOMAIN rq : POST_clientToken(r)
    \/ \E r \in DOMAIN rq : ct_handleUpload(r)

Spec == Init /\ [][Next]_vars

----------------------------------------------------------------------------
(* Reading a request's call log *)

Issued(q, op, t) == {i \in 1..Len(q.log) : q.log[i] = Issue(op, t)}
Settled(q, op, t) ==
    {i \in 1..Len(q.log) : q.log[i].op = op /\ q.log[i].ph # "issue" /\ q.log[i].target = t}

(* The request handed an object URL to the backend processor. *)
Dispatched(q) == \E i \in 1..Len(q.log) : q.log[i].op = "backend" /\ q.log[i].ph = "issue"
DispatchedUrl(q) == q.blobUrl
Returned(q) == q.pc = "done"

(* The backend processor returned success: its result was delivered. *)
BackendSucceeded(q) == Dispatched(q) /\ q.result # NULL

----------------------------------------------------------------------------
(* C1: every request that hands an object URL to the backend processor    *)
(* has issued exactly one delete for that URL by the time it returns,     *)
(* whatever the outcome of the backend call and of the delete.            *)
C1_DeleteExactlyOnce ==
    \A r \in DOMAIN rq :
        (Returned(rq[r]) /\ Dispatched(rq[r]))
            => Cardinality(Issued(rq[r], "del", <<DispatchedUrl(rq[r])>>)) = 1

(* C2: in the single-shot and upload-large handlers a delete is issued    *)
(* only after the backend call for the same URL has settled; never before *)
(* it starts or while it is in flight.                                    *)
C2_DeleteAfterBackendSettles ==
    \A r \in DOMAIN rq :
        rq[r].handler \in {"upload", "uploadLarge", "uploadProxy"}
          => \A j \in 1..Len(rq[r].log) :
                (rq[r].log[j].op = "del" /\ rq[r].log[j].ph = "issue")
                    => \E i \in Settled(rq[r], "backend", rq[r].log[j].target) : i < j

(* C2 witness: a delete was issued after the backend call was aborted by  *)
(* the timer, and the request has returned.                               *)
C2_Witness ==
    \E r \in DOMAIN rq :
        /\ Returned(rq[r])
        /\ rq[r].resp.val = <<"This operation was aborted">>
        /\ Issued(rq[r], "del", <<rq[r].blobUrl>>) # {}

(* C3: a delete failure never changes the outcome of a dispatch: backend  *)
(* success is returned as the result with a success status, a backend     *)
(* failure is returned as the backend's error, not the delete's.          *)
C3_DeleteFailureKeepsOutcome ==
    \A r \in DOMAIN rq :
        (Returned(rq[r]) /\ Dispatched(rq[r]))
            => IF BackendSucceeded(rq[r])
               THEN rq[r].resp.status = 200 /\ rq[r].resp.val = <<rq[r].result>>
               ELSE rq[r].resp.status = 500 /\ rq[r].resp.val # <<"del failed">>

(* C8: a backend processor call, the delivery of its result included, is  *)
(* never pending past the deadline measured from dispatch start; an       *)
(* aborted call ends in a 500 response with the delete issued.            *)
C8_TimeoutBoundsDispatch ==
    \A r \in DOMAIN rq :
        /\ (Dispatched(rq[r]) /\ AwaitingBackend(rq[r])) => rq[r].elapsed <= TIMEOUT_MS
        /\ (Returned(rq[r]) /\ rq[r].resp.val = <<"This operation was aborted">>
                /\ Dispatched(rq[r]))
              => /\ rq[r].resp.status = 500
                 /\ Issued(rq[r], "del", <<rq[r].blobUrl>>) # {}

----------------------------------------------------------------------------
(* Strategy A complete: what the claims say of an assembly *)

(* The request is a strategy A complete whose final object was stored. *)
Assembled(q) ==
    /\ q.handler = "chunkA"
    /\ q.input.action = "complete"
    /\ q.blobUrl # NoUrl

Manifest(q) == q.input.parts.list

NumberedParts(l) == \A i \in 1..Len(l) : ~isNaN(l[i].partNumber)
DistinctPartNumbers(l) ==
    \A i, j \in 1..Len(l) : i # j => l[i].partNumber.val # l[j].partNumber.val

RECURSIVE Flatten(_)
Flatten(seqs) == IF seqs = <<>> THEN <<>> ELSE Head(seqs) \o Flatten(Tail(seqs))

(* The order of the manifest's entries by strictly ascending partNumber. *)
AscendingOrder(l) ==
    CHOOSE p \in Permutations(1..Len(l)) :
        \A i, j \in 1..Len(l) : i < j => l[p[i]].partNumber.val < l[p[j]].partNumber.val

AscendingBytes(l) ==
    Flatten([i \in 1..Len(l) |-> StoredBytes(l[AscendingOrder(l)[i]].url)])

(* C4: for a manifest with pairwise distinct partNumbers whose retrievals *)
(* all succeed, the final object's bytes are the parts' bytes in          *)
(* ascending partNumber order, whatever the order of the manifest.        *)
C4_AscendingAssembly ==
    \A r \in DOMAIN rq :
        (Assembled(rq[r]) /\ NumberedParts(Manifest(rq[r]))
            /\ DistinctPartNumbers(Manifest(rq[r])))
          => store[rq[r].blobUrl] = AscendingBytes(Manifest(rq[r]))

(* C4 witness: the manifest {AAA, 2}, {BB, 1} was assembled into BBAAA. *)
C4_Witness ==
    \E r \in DOMAIN rq :
        /\ Assembled(rq[r])
        /\ Manifest(rq[r]) = <<Part(1, Num(2)), Part(2, Num(1))>>
        /\ store[rq[r].blobUrl] = <<"B", "B", "A", "A", "A">>

(* What complete assembles out of manifest l when every part is retrieved *)
AssembledBytes(l) ==
    combine([i \in 1..Len(l) |-> StoredBytes(sortedParts(l)[i].url)])

PermutationsOf(l) ==
    {[i \in 1..Len(l) |-> l[p[i]]] : p \in Permutations(1..Len(l))}

(* C5: the bytes stored as the final object are the same for every        *)
(* permutation of the manifest's part set.                                *)
C5_PermutationInvariance ==
    \A r \in DOMAIN rq :
        (Assembled(rq[r]) /\ NumberedParts(Manifest(rq[r])))
          => \A l \in PermutationsOf(Manifest(rq[r])) :
                AssembledBytes(l) = store[rq[r].blobUrl]

RetrievalFailed(q) ==
    \E i \in 1..Len(q.log) : q.log[i].op = "fetch" /\ q.log[i].ph = "fail"

(* C6: when the retrieval of a part fails in a strategy A complete, no    *)
(* store call for the final object is issued, no new object exists, and   *)
(* the request returns a 500 error.                                       *)
C6_RetrievalFailureStoresNothing ==
    \A r \in DOMAIN rq :
        (rq[r].handler = "chunkA" /\ RetrievalFailed(rq[r]))
          => /\ \A i \in 1..Len(rq[r].log) : rq[r].log[i].op # "put"
             /\ DOMAIN store \subseteq 1..MaxStored
             /\ Returned(rq[r])
             /\ rq[r].resp.status = 500

(* C6 witness: a complete over two parts returned after one retrieval     *)
(* failed while the other part's object exists.                           *)
C6_Witness ==
    \E r \in DOMAIN rq :
        /\ rq[r].handler = "chunkA"
        /\ Returned(rq[r])
        /\ RetrievalFailed(rq[r])
        /\ Len(rq[r].parts) = 2
        /\ \E i \in 1..2 : rq[r].parts[i].url \in DOMAIN store

----------------------------------------------------------------------------
(* Transient objects *)

(* The request wrote an object to the store with put; blobUrl is its url. *)
Wrote(q) == \E i \in 1..Len(q.log) : q.log[i].op = "put" /\ q.log[i].ph = "ok"

(* The request issued a delete that targets url u. *)
DeleteTargets(q, u) ==
    \E i \in 1..Len(q.log) :
        /\ q.log[i].op = "del"
        /\ q.log[i].ph = "issue"
        /\ \E k \in 1..Len(q.log[i].target) : q.log[i].target[k] = u

(* C7, as stated: every object a handler wrote to the store during the    *)
(* request has been targeted by a delete when the response is returned.   *)
C7_EveryWrittenObjectReleased ==
    \A r \in DOMAIN rq :
        (Returned(rq[r]) /\ Wrote(rq[r])) => DeleteTargets(rq[r], rq[r].blobUrl)

(* C7, amended: the temporary upload written by the single-shot handler   *)
(* and by the upload-large form-data path has been targeted by a delete   *)
(* when the response is returned, on every exit path; the per-chunk blob  *)
(* of action=part and the assembled blob of action=complete are returned  *)
(* to the client undeleted.                                               *)
C7_TemporaryUploadReleased ==
    \A r \in DOMAIN rq :
        (Returned(rq[r]) /\ Wrote(rq[r]))
          => IF rq[r].handler \in {"upload", "uploadLarge", "uploadProxy"}
             THEN DeleteTargets(rq[r], rq[r].blobUrl)
             ELSE /\ ~DeleteTargets(rq[r], rq[r].blobUrl)
                  /\ rq[r].blobUrl \in DOMAIN store
                  /\ rq[r].resp.url = rq[r].blobUrl

(* C7 witness: a single-shot upload returned a backend failure after it   *)
(* wrote its temporary object and issued the delete.                      *)
C7_Witness ==
    \E r \in DOMAIN rq :
        /\ rq[r].handler = "upload"
        /\ Returned(rq[r])
        /\ Wrote(rq[r])
        /\ rq[r].resp.status = 500
        /\ DeleteTargets(rq[r], rq[r].blobUrl)

----------------------------------------------------------------------------
(* Validation of client input *)

AllDigits(t) == t # <<>> /\ \A i \in 1..Len(t) : IsDigit(t[i])
NonNumericText(t) == \A i \in 1..Len(t) : ~IsDigit(t[i])
TrailingNonDigits(t) == t # <<>> /\ IsDigit(t[1]) /\ ~AllDigits(t)
NegativeText(t) == Len(t) >= 2 /\ t[1] = "-" /\ AllDigits(Tail(t))

(* The partNumber text is not a non-negative integer: non-numeric text,   *)
(* text with trailing non-digits, or a negative number.                   *)
NotANonNegativeInteger(t) == NonNumericText(t) \/ TrailingNonDigits(t) \/ NegativeText(t)

(* An action=part request that the claim says must be rejected. *)
BadPartRequest(q) ==
    /\ q.handler \in {"chunkA", "chunkB"}
    /\ q.input.action = "part"
    /\ q.input.body = "object"
    /\ \/ ~q.input.chunk.present
       \/ q.handler = "chunkA" /\ Falsy(q.input.filename)
       \/ q.handler = "chunkB" /\ (Falsy(q.input.uploadId) \/ Falsy(q.input.key))
       \/ NotANonNegativeInteger(q.input.partNumber)

(* C9: action=part is rejected with 400 and no storage call (no put, no   *)
(* uploadPart) when the chunk, the filename or uploadId/key is absent or  *)
(* the partNumber is not a non-negative integer.                          *)
C9_PartValidation ==
    \A r \in DOMAIN rq :
        BadPartRequest(rq[r])
          => /\ \A i \in 1..Len(rq[r].log) : rq[r].log[i].op \notin {"put", "uploadPart"}
             /\ Returned(rq[r])
             /\ rq[r].resp.status = 400

BadManifest(m) ==
    \/ m.kind # "list"
    \/ m.list = <<>>
    \/ \E i \in 1..Len(m.list) : m.list[i].url = NoUrl \/ isNaN(m.list[i].partNumber)

(* A request with a missing or malformed required field. *)
ClientInputError(q) ==
    /\ q.input.body = "object"
    /\ CASE q.handler = "upload" -> q.input.file = NoFile
         [] q.handler = "uploadLarge" ->
              IF q.input.contentType = "json"
              THEN q.input.url = NoUrl \/ Falsy(q.input.filename)
              ELSE q.input.file = NoFile \/ Falsy(uploadLarge_filename(q.input))
         [] q.handler = "chunkA" /\ q.input.action = "part" -> BadPartRequest(q)
         [] q.handler = "chunkA" /\ q.input.action = "complete" ->
              Falsy(q.input.filename) \/ BadManifest(q.input.parts)
         [] q.handler = "chunkB" /\ q.input.action = "create" -> Falsy(q.input.filename)
         [] q.handler = "chunkB" /\ q.input.action = "part" -> BadPartRequest(q)
         [] q.handler = "chunkB" /\ q.input.action = "complete" ->
              Falsy(q.input.uploadId) \/ Falsy(q.input.key)
                \/ q.input.parts.kind # "list" \/ q.input.parts.list = <<>>
         [] OTHER -> FALSE

(* C10: a request with a missing or malformed required field returns 400  *)
(* and issues no store, retrieve, delete or backend call; never 500.      *)
C10_ClientInputErrors ==
    \A r \in DOMAIN rq :
        (rq[r].handler # "none" /\ ClientInputError(rq[r]))
          => /\ rq[r].log = <<>>
             /\ Returned(rq[r])
             /\ rq[r].resp.status = 400

----------------------------------------------------------------------------
(* C11.  In both chunk-upload controllers a request whose action selector *)
(* is not one the controller supports (an absent selector included)       *)
(* returns status 400 with an error message that names the received       *)
(* action value, and issues no call to the store.                         *)

SupportedActions(handler) ==
    IF handler = "chunkA" THEN {"part", "complete"} ELSE {"create", "part", "complete"}

UnsupportedAction(q) ==
    /\ q.handler \in {"chunkA", "chunkB"}
    /\ q.input.action \notin SupportedActions(q.handler)

C11_UnknownAction ==
    \A r \in DOMAIN rq :
        UnsupportedAction(rq[r]) =>
            /\ Returned(rq[r])
            /\ rq[r].resp.status = 400
            /\ rq[r].resp.kind = "error"
            /\ rq[r].resp.val = <<"Unknown action", rq[r].input.action>>
            /\ rq[r].log = <<>>
            /\ rq[r].blobUrl = NoUrl

(* Both controllers have answered such a request in the same run of       *)
(* inputs: here the one-blob-per-chunk controller, asked to "create".     *)
C11_Witness ==
    \E r \in DOMAIN rq :
        /\ rq[r].handler = "chunkA"
        /\ rq[r].input.action = "create"
        /\ Returned(rq[r])
        /\ rq[r].resp.status = 400

----------------------------------------------------------------------------
(* C12.  For every manifest whose retrievals all succeed, the size of the *)
(* final object is the exact sum of the sizes of the parts, and the bytes *)
(* of each manifest entry appear exactly once, at a contiguous offset:    *)
(* the final object is the parts laid end to end in some arrangement of   *)
(* the manifest.  Parts of length zero and repeated partNumbers included. *)

RECURSIVE SumOfSizes(_)
SumOfSizes(l) ==
    IF l = <<>> THEN 0 ELSE Len(StoredBytes(Head(l).url)) + SumOfSizes(Tail(l))

(* Entry k of arrangement p of manifest l lies in bytes at the offset     *)
(* that the entries before it in p leave.                                 *)
LaidEndToEnd(bytes, l, p) ==
    \A k \in 1..Len(l) :
        LET before == [j \in 1..(k - 1) |-> l[p[j]]]
            own == StoredBytes(l[p[k]].url)
        IN  SubSeq(bytes, SumOfSizes(before) + 1, SumOfSizes(before) + Len(own)) = own

C12_CompleteAssembly ==
    \A r \in DOMAIN rq :
        Assembled(rq[r]) =>
            LET final == store[rq[r].blobUrl]
                l == Manifest(rq[r])
            IN  /\ Len(final) = SumOfSizes(l)
                /\ \E p \in Permutations(1..Len(l)) : LaidEndToEnd(final, l, p)

(* A manifest of two entries with the same partNumber, one of them of     *)
(* length zero, was assembled.                                            *)
C12_Witness ==
    \E r \in DOMAIN rq :
        /\ Assembled(rq[r])
        /\ Manifest(rq[r]) = <<Part(3, Num(1)), Part(2, Num(1))>>
        /\ StoredBytes(3) = <<>>
        /\ store[rq[r].blobUrl] = <<"B", "B">>

----------------------------------------------------------------------------
(* C13.  In a strategy A complete whose retrievals and final store        *)
(* succeeded, a delete of the parts that throws is not fatal: the request *)
(* still returns the success response carrying the final object's URL.    *)

PartCleanupFailed(q) ==
    /\ q.handler = "chunkA"
    /\ \E i \in 1..Len(q.log) : q.log[i].op = "del" /\ q.log[i].ph = "fail"

C13_PartCleanupFailureNonFatal ==
    \A r \in DOMAIN rq :
        PartCleanupFailed(rq[r]) =>
            /\ Returned(rq[r])
            /\ rq[r].resp.status = 200
            /\ rq[r].resp.kind = "url"
            /\ rq[r].resp.url = rq[r].blobUrl
            /\ rq[r].blobUrl \in DOMAIN store
            /\ store[rq[r].blobUrl] = rq[r].combined

(* The delete of two parts failed after their assembly was stored; the    *)
(* parts are still in the store.                                          *)
C13_Witness ==
    \E r \in DOMAIN rq :
        /\ PartCleanupFailed(rq[r])
        /\ Returned(rq[r])
        /\ Len(rq[r].parts) = 2
        /\ \A i \in 1..2 : rq[r].parts[i].url \in DOMAIN store

----------------------------------------------------------------------------
(* A strategy A session, src/unnamed/part_002 lines 156-158 (client       *)
(* flow): the client posts one action=part request per chunk, with any    *)
(* concurrency, then posts action=complete with a manifest made of the    *)
(* entries { url, partNumber } that the part requests returned.  The      *)
(* store is empty as the session starts.                                  *)

PartSlots == 1..MaxParts              \* one request per chunk of the file
CompleteSlot == MaxParts + 1

(* The chunk that part slot r carries *)
SessionChunk(r) ==
    CASE r = 1 -> <<"A", "A", "A">>
      [] r = 2 -> <<"B", "B">>
      [] OTHER -> <<"C">>

SessionFilenames == {"f.pdf", "g.pdf"}

SessionPartInputs(r) ==
    {[action |-> "part", body |-> "object",
      chunk |-> [present |-> TRUE, bytes |-> SessionChunk(r)], filename |-> "f.pdf",
      partNumber |-> NatString(n), parts |-> [kind |-> "absent", list |-> <<>>]] :
        n \in 1..MaxPartNumber}

(* The part requests that returned { url, partNumber } *)
ReturnedParts == {r \in PartSlots : rq[r].pc = "done" /\ rq[r].resp.status = 200}
ReturnedEntry(r) == Part(rq[r].resp.url, Num(rq[r].resp.partNumber))

(* The manifests a client makes of returned entries: each at most once,   *)
(* in any order.                                                          *)
ReturnedManifests ==
    {l \in ListsUpTo({ReturnedEntry(r) : r \in ReturnedParts}, MaxParts) :
        /\ l # <<>>
        /\ \A i, j \in 1..Len(l) : i # j => l[i].url # l[j].url}

SessionCompleteInputs ==
    {[action |-> "complete", body |-> "object", chunk |-> NoChunk, filename |-> f,
      partNumber |-> <<>>, parts |-> [kind |-> "list", list |-> l]] :
        f \in SessionFilenames, l \in ReturnedManifests}

PartRequest(r) ==
    /\ r \in PartSlots
    /\ rq[r].pc = "idle"
    /\ \E inp \in SessionPartInputs(r) :
         Set(r, chunkA_POST([rq[r] EXCEPT !.handler = "chunkA", !.input = inp], inp))
    /\ StoreUnchanged

CompleteRequest(r) ==
    /\ r = CompleteSlot
    /\ rq[r].pc = "idle"
    /\ \E inp \in SessionCompleteInputs :
         Set(r, chunkA_POST([rq[r] EXCEPT !.handler = "chunkA", !.input = inp], inp))
    /\ StoreUnchanged

SessionInit ==
    /\ rq = [r \in PartSlots \cup {CompleteSlot} |-> IdleReq]
    /\ store = [u \in {} |-> <<>>]
    /\ nextUrl = 1

SessionNext ==
    \/ \E r \in DOMAIN rq : PartRequest(r)
    \/ \E r \in DOMAIN rq : cA_part_put(r)
    \/ \E r \in DOMAIN rq : CompleteRequest(r)
    \/ \E r \in DOMAIN rq : cA_fetch_ok(r)
    \/ \E r \in DOMAIN rq : cA_fetch_fail(r)
    \/ \E r \in DOMAIN rq : cA_put(r)
    \/ \E r \in DOMAIN rq : cA_del(r)

SessionSpec == SessionInit /\ [][SessionNext]_vars

----------------------------------------------------------------------------
(* C14.  Part uploads are independent of order and interleaving: part     *)
(* requests with distinct part numbers, started and settled in any order  *)
(* (concurrently included), each yield a stored object of their own that  *)
(* no other part request overwrites, and a complete over a manifest of    *)
(* returned entries assembles the same bytes for every interleaving: the  *)
(* chunks of the manifest's part numbers in ascending order.              *)

StartedParts == {r \in PartSlots : rq[r].pc # "idle"}
DistinctSessionNumbers ==
    \A r, s \in StartedParts : r # s => rq[r].partNumber # rq[s].partNumber

(* The chunk sent under part number n *)
ChunkNumbered(n) == SessionChunk(CHOOSE r \in StartedParts : rq[r].partNumber = n)

SessionBytes(l) ==
    Flatten([i \in 1..Len(l) |-> ChunkNumbered(l[AscendingOrder(l)[i]].partNumber.val)])

C14_PartUploadsIndependent ==
    DistinctSessionNumbers =>
        /\ \A r, s \in ReturnedParts : r # s => rq[r].resp.url # rq[s].resp.url
        /\ \A r \in ReturnedParts :
              IF rq[r].resp.url \in DOMAIN store
              THEN store[rq[r].resp.url] = SessionChunk(r)
              ELSE DeleteTargets(rq[CompleteSlot], rq[r].resp.url)
        /\ Assembled(rq[CompleteSlot]) =>
              store[rq[CompleteSlot].blobUrl] = SessionBytes(Manifest(rq[CompleteSlot]))

(* The part numbered 2 was stored before the part numbered 1, the         *)
(* manifest lists them in that order, and the assembly is AAABB.          *)
C14_Witness ==
    /\ rq[1].partNumber = 1 /\ rq[2].partNumber = 2
    /\ ReturnedParts = {1, 2}
    /\ rq[2].resp.url < rq[1].resp.url
    /\ Assembled(rq[CompleteSlot])
    /\ Manifest(rq[CompleteSlot]) = <<ReturnedEntry(2), ReturnedEntry(1)>>
    /\ store[rq[CompleteSlot].blobUrl] = <<"A", "A", "A", "B", "B">>

----------------------------------------------------------------------------
(* C15.  No automatic retry: within one request, after a store, retrieve, *)
(* delete or backend call has failed, the same operation on the same      *)
(* target is never invoked again; the backend processor is called at most *)
(* once per request, and a failed delete is not attempted again.          *)

BackendCalls(q) ==
    {i \in 1..Len(q.log) : q.log[i].op \in {"backend", "backendUpload"} /\ q.log[i].ph = "issue"}

C15_NoRetry ==
    \A r \in DOMAIN rq :
        /\ \A i, j \in 1..Len(rq[r].log) :
              (i < j /\ rq[r].log[i].ph = "fail" /\ rq[r].log[j].ph = "issue"
                     /\ rq[r].log[i].op = rq[r].log[j].op)
                => rq[r].log[i].target # rq[r].log[j].target
        /\ Cardinality(BackendCalls(rq[r])) <= 1

----------------------------------------------------------------------------
(* C16.  Errors are caught at the request boundary: in every handler      *)
(* (upload, upload-large, both chunk-upload controllers, the client-token *)
(* handler) a request ends in a success response or, after any failure    *)
(* (a body that does not parse included), in a JSON error response with   *)
(* status 400 or 500; no exception leaves the handler.                    *)
C16_ErrorsCaughtAtBoundary ==
    \A r \in DOMAIN rq :
        Returned(rq[r]) =>
            /\ rq[r].resp.kind # "uncaught"
            /\ \/ rq[r].resp.status = 200
               \/ rq[r].resp.kind = "error" /\ rq[r].resp.status \in {400, 500}

----------------------------------------------------------------------------
(* C17.  Part lifecycle in a strategy A complete: the parts are targeted  *)
(* by a delete only after the final object was stored successfully, in    *)
(* one delete call that covers exactly the URLs of the manifest; when a   *)
(* retrieval or the final store fails, no delete of parts is issued.      *)

PartDeletes(q) == {i \in 1..Len(q.log) : q.log[i].op = "del" /\ q.log[i].ph = "issue"}
FinalStoreFailed(q) ==
    \E i \in 1..Len(q.log) : q.log[i] = Settle("put", <<q.filename>>, FALSE)
UrlsOf(l) == {l[i].url : i \in 1..Len(l)}

C17_PartLifecycle ==
    \A r \in DOMAIN rq :
        rq[r].handler = "chunkA" =>
            LET q == rq[r] IN
            /\ Cardinality(PartDeletes(q)) <= 1
            /\ \A i \in PartDeletes(q) :
                  /\ \E j \in 1..(i - 1) : q.log[j] = Settle("put", <<q.filename>>, TRUE)
                  /\ q.blobUrl \in DOMAIN store
                  /\ Len(q.log[i].target) = Len(Manifest(q))
                  /\ {q.log[i].target[k] : k \in 1..Len(q.log[i].target)} = UrlsOf(Manifest(q))
            /\ (RetrievalFailed(q) \/ FinalStoreFailed(q)) => PartDeletes(q) = {}
            /\ Assembled(q) => PartDeletes(q) # {}

(* A complete over two parts deleted them after its final object was      *)
(* stored.                                                                *)
C17_Witness ==
    \E r \in DOMAIN rq :
        /\ rq[r].handler = "chunkA"
        /\ Returned(rq[r])
        /\ Cardinality(UrlsOf(rq[r].parts)) = 2
        /\ PartDeletes(rq[r]) # {}
        /\ UrlsOf(rq[r].parts) \cap DOMAIN store = {}
        /\ rq[r].blobUrl \in DOMAIN store

----------------------------------------------------------------------------
(* C18.  A strategy A complete depends only on its manifest and on the    *)
(* contents of the store: it retrieves exactly the manifest's URLs,       *)
(* whichever part requests came before it and whatever filename they      *)
(* carried, and the object it stores is made of the bytes the store holds *)
(* at those URLs, in ascending partNumber order (entries with the same    *)
(* partNumber in manifest order); the response carries that object's URL. *)

(* Ascending partNumber, manifest order among equal partNumbers. *)
StableOrder(l) ==
    CHOOSE p \in Permutations(1..Len(l)) :
        \A i, j \in 1..Len(l) :
            i < j => \/ l[p[i]].partNumber.val < l[p[j]].partNumber.val
                     \/ /\ l[p[i]].partNumber.val = l[p[j]].partNumber.val
                        /\ p[i] < p[j]

FetchIssues(q) == {i \in 1..Len(q.log) : q.log[i].op = "fetch" /\ q.log[i].ph = "issue"}

C18_CompleteReadsManifestOnly ==
    LET q == rq[CompleteSlot]
        l == Manifest(q)
    IN  q.pc # "idle" =>
          /\ Cardinality(FetchIssues(q)) = Len(l)
          /\ {q.log[i].target[1] : i \in FetchIssues(q)} = UrlsOf(l)
          /\ q.pc = "cA_del" =>
                store[q.blobUrl] = Flatten([i \in 1..Len(l) |-> store[l[StableOrder(l)[i]].url]])
          /\ (Returned(q) /\ Assembled(q)) =>
                /\ q.resp.status = 200
                /\ q.resp.url = q.blobUrl
                /\ store[q.blobUrl] = q.combined

(* A complete for g.pdf assembled two parts that were uploaded for f.pdf  *)
(* under the same partNumber.                                             *)
C18_Witness ==
    /\ Assembled(rq[CompleteSlot])
    /\ Returned(rq[CompleteSlot])
    /\ rq[CompleteSlot].filename = "g.pdf"
    /\ Len(Manifest(rq[CompleteSlot])) = 2
    /\ \A r \in 1..2 : rq[r].filename = "f.pdf" /\ rq[r].partNumber = 1

----------------------------------------------------------------------------
(* C19.  Strategy B complete is pure delegation: for a request with       *)
(* non-empty uploadId, key and parts, the parts are handed to             *)
(* completeMultipartUpload in the client's order and content, in exactly  *)
(* one call; no store, retrieve or delete call is made by the handler;    *)
(* and the URL returned is the one the provider gave.                     *)

ValidCompleteB(q) ==
    /\ q.handler = "chunkB"
    /\ q.input.action = "complete"
    /\ q.input.body = "object"
    /\ ~Falsy(q.input.uploadId) /\ ~Falsy(q.input.key)
    /\ q.input.parts.kind = "list" /\ q.input.parts.list # <<>>

C19_PureDelegation ==
    \A r \in DOMAIN rq :
        ValidCompleteB(rq[r]) =>
            LET q == rq[r] IN
            /\ q.log # <<>>
            /\ q.log[1] = Issue("completeMultipartUpload", q.input.parts.list)
            /\ \A i \in 2..Len(q.log) :
                  q.log[i].op = "completeMultipartUpload" /\ q.log[i].ph # "issue"
            /\ (Returned(q) /\ q.resp.status = 200) =>
                  /\ q.resp.kind = "url"
                  /\ q.resp.url = q.blobUrl
                  /\ q.log[Len(q.log)] = Settle("completeMultipartUpload", q.input.parts.list, TRUE)
            /\ (Returned(q) /\ q.resp.status # 200) =>
                  /\ q.resp.status = 500
                  /\ DOMAIN store \subseteq 1..MaxStored

(* A manifest listing part 2 before part 1 was handed over as it came and *)
(* the provider's URL was returned.                                       *)
C19_Witness ==
    \E r \in DOMAIN rq :
        /\ ValidCompleteB(rq[r])
        /\ Returned(rq[r])
        /\ rq[r].resp.status = 200
        /\ rq[r].input.parts.list = <<[partNumber |-> 2, etag |-> "e"], [partNumber |-> 1, etag |-> "e"]>>

----------------------------------------------------------------------------
(* C20.  In every assembly of strategy A the partNumbers of the manifest  *)
(* are pairwise distinct: a manifest in which two parts share a           *)
(* partNumber is never assembled.                                         *)
C20_UniquePartNumbers ==
    \A r \in DOMAIN rq :
        (Assembled(rq[r]) /\ NumberedParts(Manifest(rq[r])))
            => DistinctPartNumbers(Manifest(rq[r]))

----------------------------------------------------------------------------
(* C21.  Fallback exclusivity in the form-data mode of upload-large (both *)
(* copies of the handler): when the temporary store succeeds, the backend *)
(* is called through upload-from-url only and a delete of the stored      *)
(* object has been issued by the time the request returns; when the       *)
(* temporary store fails, the file is forwarded to the backend upload     *)
(* endpoint, no delete is issued, and the request fails only if that      *)
(* forward fails.  No request calls both backend endpoints.               *)

FormUpload(q) ==
    /\ q.handler \in {"uploadLarge", "uploadProxy"}
    /\ q.input.contentType = "form"

CalledEndpoint(q, op) == \E i \in 1..Len(q.log) : q.log[i].op = op /\ q.log[i].ph = "issue"
TemporaryStoreSucceeded(q) == \E i \in 1..Len(q.log) : q.log[i] = Settle("put", <<q.filename>>, TRUE)
TemporaryStoreFailed(q) == \E i \in 1..Len(q.log) : q.log[i] = Settle("put", <<q.filename>>, FALSE)
ForwardFailed(q) ==
    \/ \E i \in 1..Len(q.log) : q.log[i] = Settle("backendUpload", <<>>, FALSE)
    \/ q.resp.val = <<"Unexpected token">>

C21_FallbackExclusivity ==
    \A r \in DOMAIN rq :
        FormUpload(rq[r]) =>
            LET q == rq[r] IN
            /\ ~(CalledEndpoint(q, "backend") /\ CalledEndpoint(q, "backendUpload"))
            /\ TemporaryStoreSucceeded(q) =>
                  /\ Issued(q, "backend", <<q.blobUrl>>) # {}
                  /\ ~CalledEndpoint(q, "backendUpload")
                  /\ Returned(q) => Cardinality(Issued(q, "del", <<q.blobUrl>>)) = 1
            /\ TemporaryStoreFailed(q) =>
                  /\ CalledEndpoint(q, "backendUpload")
                  /\ ~CalledEndpoint(q, "backend")
                  /\ ~CalledEndpoint(q, "del")
                  /\ q.blobUrl = NoUrl
                  /\ (Returned(q) /\ q.resp.status # 200) => ForwardFailed(q)

(* The form-data proxy returned the backend's result after its temporary  *)
(* store had failed.                                                      *)
C21_Witness ==
    \E r \in DOMAIN rq :
        /\ rq[r].handler = "uploadProxy"
        /\ TemporaryStoreFailed(rq[r])
        /\ Returned(rq[r])
        /\ rq[r].resp.status = 200
        /\ rq[r].resp.kind = "result"

----------------------------------------------------------------------------
(* Two independent requests that carry the same input and run at the same *)
(* time: two JSON dispatches of one object URL                            *)
(* (src/app/api/upload-large/route.ts lines 44-55), or two strategy A     *)
(* completes over one manifest (src/unnamed/part_002 lines 205-258).  The *)
(* objects the requests name are in the store as they arrive.             *)

ConcurrentSlots == {1, 2}

ConcurrentDispatches ==
    {[contentType |-> "json", body |-> "object", url |-> u, filename |-> "f.pdf", file |-> NoFile] :
        u \in Urls}

(* The first n stored objects, numbered in order *)
ConcurrentCompletes ==
    {[action |-> "complete", body |-> "object", chunk |-> NoChunk, filename |-> "f.pdf",
      partNumber |-> <<>>,
      parts |-> [kind |-> "list", list |-> [i \in 1..n |-> Part(i, Num(i))]]] :
        n \in 1..MaxParts}

(* The other request has not arrived, or it carries the same input. *)
SameAsOther(r, handler, inp) ==
    \A s \in DOMAIN rq \ {r} :
        IF rq[s].pc = "idle" /\ rq[s].handler = "none" THEN TRUE
        ELSE rq[s].handler = handler /\ rq[s].input = inp

ConcurrentDispatch(r) ==
    /\ rq[r].pc = "idle"
    /\ \E inp \in ConcurrentDispatches :
         /\ SameAsOther(r, "uploadLarge", inp)
         /\ Set(r, uploadLarge_POST([rq[r] EXCEPT !.handler = "uploadLarge", !.input = inp], inp))
    /\ StoreUnchanged

ConcurrentComplete(r) ==
    /\ rq[r].pc = "idle"
    /\ \E inp \in ConcurrentCompletes :
         /\ SameAsOther(r, "chunkA", inp)
         /\ Set(r, chunkA_POST([rq[r] EXCEPT !.handler = "chunkA", !.input = inp], inp))
    /\ StoreUnchanged

ConcurrentInit ==
    /\ rq = [r \in ConcurrentSlots |-> IdleReq]
    /\ store = [u \in 1..MaxStored |-> StoredBytes(u)]
    /\ nextUrl = MaxStored + 1

ConcurrentNext ==
    \/ Tick
    \/ \E r \in DOMAIN rq : ConcurrentDispatch(r)
    \/ \E r \in DOMAIN rq : pfu_fetch_response(r)
    \/ \E r \in DOMAIN rq : pfu_fetch_reject(r)
    \/ \E r \in DOMAIN rq : pfu_abort(r)
    \/ \E r \in DOMAIN rq : pfu_text(r)
    \/ \E r \in DOMAIN rq : pfu_json(r)
    \/ \E r \in DOMAIN rq : pfu_del(r)
    \/ \E r \in DOMAIN rq : pfu_catch_del(r)
    \/ \E r \in DOMAIN rq : ConcurrentComplete(r)
    \/ \E r \in DOMAIN rq : cA_fetch_ok(r)
    \/ \E r \in DOMAIN rq : cA_fetch_fail(r)
    \/ \E r \in DOMAIN rq : cA_put(r)
    \/ \E r \in DOMAIN rq : cA_del(r)

ConcurrentSpec == ConcurrentInit /\ [][ConcurrentNext]_vars

----------------------------------------------------------------------------
(* C22.  Valid URL under concurrent requests: in every interleaving of    *)
(* two dispatches of one object URL, or of two completes over one         *)
(* manifest, no step deletes an object while a backend processor call or  *)
(* a part retrieval that refers to its URL is in flight in a request.     *)

(* Request q awaits a backend call or a retrieval that refers to url u. *)
InFlight(q, u) ==
    \/ q.pc = "pfu_fetch" /\ q.blobUrl = u
    \/ q.pc = "cA_fetch" /\ \E i \in 1..Len(q.parts) : q.parts[i].url = u

C22_NoDeleteWhileInFlight ==
    [][\A u \in DOMAIN store :
          u \notin DOMAIN store' => \A s \in DOMAIN rq : ~InFlight(rq[s], u)]_vars

====
